---- MODULE Spec2Model ----
(***************************************************************************)
(* kheap_sift: model of src/main.rs and of the pipeline of src/wegg.rs.     *)
(*                                                                         *)
(* main builds the struct catalog from the debug info, enumerates and      *)
(* filters the source files, then spawns one tokio task per file behind a  *)
(* semaphore; each task reads its file and runs process_file_content,      *)
(* which prints one report block per accepted match under STDOUT_MUTEX.    *)
(*                                                                         *)
(* Text is a sequence of one-character strings; a byte range is a record   *)
(* [start, end) with 0-based offsets, as std::ops::Range<usize>.           *)
(***************************************************************************)
EXTENDS Integers, Sequences, FiniteSets, TLC

(***************************************************************************)
(* Bounds of the model.                                                    *)
(***************************************************************************)
MaxFiles == 3
MaxThreads == 3
MaxSize == 3
MaxPool == 2
MaxText == 4
MaxRanges == 2

(* main.rs:135, the ceiling on --threads *)
ThreadCeiling == 1000

NL == "\n"

(***************************************************************************)
(* Text helpers (Rust std): str::lines, str::find, str::contains,          *)
(* str::ends_with, slicing.                                                *)
(***************************************************************************)
Slice(s, start, end) == SubSeq(s, start + 1, end)

Text(content, range) == Slice(content, range.start, range.end)

RECURSIVE FindFrom(_, _, _)
FindFrom(s, c, i) ==
    IF i > Len(s) THEN -1
    ELSE IF s[i] = c THEN i - 1
    ELSE FindFrom(s, c, i + 1)

(* str::find(char): offset of the first occurrence, -1 for None *)
Find(s, c) == FindFrom(s, c, 1)

(* str::contains(&str) *)
Contains(s, sub) ==
    \E i \in 0..(Len(s) - Len(sub)) : Slice(s, i, i + Len(sub)) = sub

(* str::ends_with(&str) *)
EndsWith(s, sub) ==
    /\ Len(sub) <= Len(s)
    /\ Slice(s, Len(s) - Len(sub), Len(s)) = sub

RECURSIVE LinesFrom(_, _, _)
LinesFrom(s, i, cur) ==
    IF i > Len(s) THEN (IF cur = <<>> THEN <<>> ELSE <<cur>>)
    ELSE IF s[i] = NL THEN <<cur>> \o LinesFrom(s, i + 1, <<>>)
    ELSE LinesFrom(s, i + 1, Append(cur, s[i]))

(* str::lines(): split at "\n", no empty piece after a final "\n" *)
Lines(s) == LinesFrom(s, 1, <<>>)

RECURSIVE LineScan(_, _, _, _)
LineScan(content, byte_offset, idx, line_number) ==
    IF idx >= Len(content) THEN 0
    ELSE IF idx >= byte_offset THEN line_number
    ELSE LineScan(content, byte_offset, idx + 1,
                  IF content[idx + 1] = NL THEN line_number + 1 ELSE line_number)

(* main.rs:165 byte_offset_to_line_number; 0 stands for None *)
byte_offset_to_line_number(content, byte_offset) ==
    LineScan(content, byte_offset, 0, 1)

(***************************************************************************)
(* regex crate, as far as --flags uses it: Regex::new and Regex::find.     *)
(* A pattern is ".*", a literal, or malformed (an unclosed group).         *)
(***************************************************************************)
MatchAny == <<".", "*">>

(* Regex::new: [ok |-> FALSE] stands for Err *)
RegexNew(pattern) ==
    IF Contains(pattern, <<"(">>) THEN [ok |-> FALSE, any |-> FALSE, lit |-> <<>>]
    ELSE IF pattern = MatchAny THEN [ok |-> TRUE, any |-> TRUE, lit |-> <<>>]
    ELSE [ok |-> TRUE, any |-> FALSE, lit |-> pattern]

(* Regex::find(text).is_some() *)
RegexFind(re, text) == re.any \/ Contains(text, re.lit)

(***************************************************************************)
(* globset crate, as far as --exclude uses it: Glob::new and               *)
(* GlobSet::is_match.  "*" matches any run of characters, every other      *)
(* character matches itself; an unclosed "[" is malformed.                 *)
(***************************************************************************)
GlobValid(glob) == ~Contains(glob, <<"[">>)

RECURSIVE GlobMatchFrom(_, _, _, _)
GlobMatchFrom(glob, path, gi, pi) ==
    IF gi > Len(glob) THEN pi > Len(path)
    ELSE IF glob[gi] = "*"
         THEN \/ GlobMatchFrom(glob, path, gi + 1, pi)
              \/ (pi <= Len(path) /\ GlobMatchFrom(glob, path, gi, pi + 1))
    ELSE /\ pi <= Len(path)
         /\ path[pi] = glob[gi]
         /\ GlobMatchFrom(glob, path, gi + 1, pi + 1)

GlobMatch(glob, path) == GlobMatchFrom(glob, path, 1, 1)

(* GlobSet::is_match: the path matches at least one glob of the set *)
is_match(globs, path) == \E g \in 1..Len(globs) : GlobMatch(globs[g], path)

RECURSIVE LastDotFrom(_, _)
LastDotFrom(path, i) ==
    IF i < 1 THEN 0
    ELSE IF path[i] = "/" THEN 0
    ELSE IF path[i] = "." THEN i
    ELSE LastDotFrom(path, i - 1)

(* Path::extension: the text after the last "." of the file name, <<>> for None *)
Extension(path) ==
    LET d == LastDotFrom(path, Len(path))
    IN  IF d <= 1 THEN <<>>
        ELSE IF path[d - 1] = "/" THEN <<>>
        ELSE SubSeq(path, d + 1, Len(path))

(***************************************************************************)
(* display_match (main.rs:204-307).                                        *)
(*                                                                         *)
(* qm is one QueryMatch: the byte ranges function_definition, struct_name, *)
(* decl_name, assign_name, assign_func, flags.  The result is what the     *)
(* call does: whether it panics before taking STDOUT_MUTEX, the lines it   *)
(* prints while holding it, and whether it panics while holding it.        *)
(***************************************************************************)
Line(kind, val) == [kind |-> kind, val |-> val]

(* main.rs:220-225 *)
match_ranges(qm) ==
    <<qm.struct_name, qm.decl_name, qm.assign_name, qm.assign_func, qm.flags>>

(* main.rs:249: some capture starts on the line occupying [seen, seen + len + 1) *)
LineHasCapture(qm, seen, len) ==
    \E r \in 1..Len(match_ranges(qm)) :
        LET at == match_ranges(qm)[r].start - qm.function_definition.start
        IN  seen <= at /\ at < seen + len + 1

InSeq(seq, x) == \E i \in 1..Len(seq) : seq[i] = x

RECURSIVE IncludeCaptured(_, _, _, _, _)
(* main.rs:246-256 *)
IncludeCaptured(qm, src_lines, idx, seen, included_lines) ==
    IF idx >= Len(src_lines) THEN included_lines
    ELSE LET len == Len(src_lines[idx + 1])
             next == IF LineHasCapture(qm, seen, len) /\ ~InSeq(included_lines, idx)
                     THEN Append(included_lines, idx)
                     ELSE included_lines
         IN  IncludeCaptured(qm, src_lines, idx + 1, seen + len + 1, next)

(* main.rs:280-292: the return line and the closing line; src_lines_ct >= 1 *)
IncludeTail(src_lines, included_lines) ==
    LET src_lines_ct == Len(src_lines) - 1
        prev == src_lines[src_lines_ct]
        with_return ==
            IF /\ ~InSeq(included_lines, src_lines_ct - 1)
               /\ Contains(prev, <<"r", "e", "t", "u", "r", "n", " ">>)
               /\ EndsWith(prev, <<";">>)
            THEN Append(included_lines, src_lines_ct - 1)
            ELSE included_lines
    IN  IF ~InSeq(with_return, src_lines_ct)
        THEN Append(with_return, src_lines_ct)
        ELSE with_return

RECURSIVE PrintExcerpt(_, _, _, _)
(* main.rs:296-303: last_line starts at usize::MAX-1, which is -2 modulo 2^64.
   An index outside src_lines panics: the lines before it are printed. *)
PrintExcerpt(src_lines, included_lines, i, last_line) ==
    IF i > Len(included_lines) THEN [lines |-> <<>>, panic |-> FALSE]
    ELSE LET line_idx == included_lines[i]
             dots == IF line_idx = -2 \/ last_line + 1 # line_idx
                     THEN <<Line("dots", 0)>> ELSE <<>>
         IN  IF line_idx >= Len(src_lines)
             THEN [lines |-> dots, panic |-> TRUE]
             ELSE LET rest == PrintExcerpt(src_lines, included_lines, i + 1, line_idx)
                  IN  [lines |-> dots \o <<Line("src", line_idx)>> \o rest.lines,
                       panic |-> rest.panic]

(* main.rs:265-276 *)
PrintHead(struct_name, decl_line_start) ==
    <<Line("header", struct_name), Line("layout", struct_name),
      Line("blank", 0), Line("path", decl_line_start)>>

Panic(before_lock, lines) ==
    [before_lock |-> before_lock, panic |-> TRUE, lines |-> lines]

display_match(content, qm) ==
    LET struct_name == Text(content, qm.struct_name)
        decl_line_start ==
            byte_offset_to_line_number(content, qm.function_definition.start)
        function_src == Text(content, qm.function_definition)
        brace_location == Find(function_src, "{")
        brace_line ==
            byte_offset_to_line_number(
                Slice(content, decl_line_start, Len(content)), brace_location)
        end_decl_line == brace_line - 1
        src_lines == Lines(function_src)
        included_lines ==
            IncludeCaptured(qm, src_lines, 0, 0, [i \in 1..end_decl_line |-> i - 1])
        head == PrintHead(struct_name, decl_line_start)
    IN  IF decl_line_start = 0 THEN Panic(TRUE, <<>>)
        ELSE IF brace_location = -1 THEN Panic(TRUE, <<>>)
        ELSE IF decl_line_start > Len(content) THEN Panic(TRUE, <<>>)
        ELSE IF brace_line = 0 THEN Panic(TRUE, <<>>)
        ELSE IF Len(src_lines) <= 1 THEN Panic(FALSE, head)
        ELSE LET excerpt ==
                     PrintExcerpt(src_lines, IncludeTail(src_lines, included_lines), 1, -2)
             IN  [before_lock |-> FALSE,
                  panic |-> excerpt.panic,
                  lines |-> head \o excerpt.lines
                            \o (IF excerpt.panic THEN <<>> ELSE <<Line("blank", 0)>>)]

(***************************************************************************)
(* The inputs: the debug info, the source tree, the command line.          *)
(*                                                                         *)
(* A source file is [path, readable, content, matches]; matches is what    *)
(* the tree-sitter query of process_file_content returns for the content,  *)
(* one QueryMatch per match.  In the sources "S A*p;" declares a pointer   *)
(* to struct A, "k" is the allocator and "GK", "GT" are the flags          *)
(* GFP_KERNEL and GFP_ATOMIC.                                              *)
(***************************************************************************)
Range(start, end) == [start |-> start, end |-> end]

QueryMatch(fn, struct_name, decl_name, assign_name, assign_func, flags) ==
    [function_definition |-> fn, struct_name |-> struct_name,
     decl_name |-> decl_name, assign_name |-> assign_name,
     assign_func |-> assign_func, flags |-> flags]

Shift(r, by) == Range(r.start + by, r.end + by)

ShiftMatch(qm, by) ==
    [c \in DOMAIN qm |-> Shift(qm[c], by)]

(* f(){         a function over four lines
   S A*p;
   p=k(GK);
   }                                                                       *)
FourLines(open, name, flags) ==
    <<"f", "(", ")", open, NL>>
    \o <<"S", " ", name, "*", "p", ";", NL>>
    \o <<"p", "=", "k", "(">> \o flags \o <<")", ";", NL>>
    \o <<"}", NL>>

FourLinesMatch(flags) ==
    QueryMatch(Range(0, 20 + Len(flags)), Range(7, 8), Range(9, 10),
               Range(12, 13), Range(14, 15), Range(16, 16 + Len(flags)))

(* f(){S A*p;p=k(GK);}      the same function on one line *)
OneLine(name, flags) ==
    <<"f", "(", ")", "{", "S", " ", name, "*", "p", ";">>
    \o <<"p", "=", "k", "(">> \o flags \o <<")", ";", "}", NL>>

OneLineMatch(flags) ==
    QueryMatch(Range(0, 17 + Len(flags)), Range(6, 7), Range(8, 9),
               Range(10, 11), Range(12, 13), Range(14, 14 + Len(flags)))

GFP_KERNEL == <<"G", "K">>
GFP_ATOMIC == <<"G", "T">>

Path_a == <<"a", ".", "c">>
Path_b == <<"b", ".", "h">>
Path_n == <<"n", ".", "c">>
Path_s == <<"s", ".", "c">>
Path_u == <<"u", ".", "c">>
Path_r == <<"r", ".", "s">>

SourceFile(path, readable, content, matches) ==
    [path |-> path, readable |-> readable, content |-> content, matches |-> matches]

(* The files a source tree is made of, in directory order:
   a.c  struct A allocated with GFP_KERNEL
   b.h  struct A allocated with GFP_ATOMIC, then struct B with GFP_KERNEL
   n.c  a match whose function text has no opening brace (BEGIN/END macros)
   s.c  the function of a.c written on one line
   u.c  cannot be opened
   r.s  not a C file                                                       *)
KernelTree ==
    << SourceFile(Path_a, TRUE, FourLines("{", "A", GFP_KERNEL),
                  <<FourLinesMatch(GFP_KERNEL)>>),
       SourceFile(Path_b, TRUE,
                  FourLines("{", "A", GFP_ATOMIC) \o FourLines("{", "B", GFP_KERNEL),
                  <<FourLinesMatch(GFP_ATOMIC),
                    ShiftMatch(FourLinesMatch(GFP_KERNEL),
                               Len(FourLines("{", "A", GFP_ATOMIC)))>>),
       SourceFile(Path_n, TRUE, FourLines("B", "A", GFP_KERNEL),
                  <<FourLinesMatch(GFP_KERNEL)>>),
       SourceFile(Path_s, TRUE, OneLine("A", GFP_KERNEL),
                  <<OneLineMatch(GFP_KERNEL)>>),
       SourceFile(Path_u, FALSE, <<>>, <<>>),
       SourceFile(Path_r, TRUE, FourLines("{", "A", GFP_KERNEL),
                  <<FourLinesMatch(GFP_KERNEL)>>) >>

(* the subsequences of KernelTree with at most MaxFiles files *)
Trees ==
    { SelectSeq(KernelTree, LAMBDA f : f.path \in keep) :
        keep \in { k \in SUBSET { KernelTree[i].path : i \in 1..Len(KernelTree) } :
                     Cardinality(k) <= MaxFiles } }

StructNames == { <<"A">>, <<"B">>, <<"C">> }

(* byte_size of each struct of the debug info; -1: byte_size returns Err *)
NoSize == -1
Sizes == { NoSize } \cup 0..MaxSize

(* struct A of 1 byte, struct B of 2 bytes, struct C of unreadable size *)
KernelTypes ==
    [n \in StructNames |->
        IF n = <<"A">> THEN 1 ELSE IF n = <<"B">> THEN 2 ELSE NoSize]

None == <<"None">>
Some(x) == <<"Some", x>>

FlagsArgs == { None, Some(GFP_ATOMIC), Some(<<"(">>) }
ExcludeArgs == { <<>>, << <<"*", ".", "h">> >>, << <<"[">> >> }
ThreadsArgs ==
    { None } \cup { Some(n) : n \in 0..MaxThreads }
    \cup { Some(ThreadCeiling), Some(ThreadCeiling + 1) }

(***************************************************************************)
(* The state of one run.                                                   *)
(***************************************************************************)
VARIABLES
    args,        \* CmdArgs: lower_bound, upper_bound, flags, exclude, threads
    dwarf,       \* the debug info: struct name -> byte size
    tree,        \* the files under source_path, in directory order
    pc,          \* where main is
    struct_map,  \* the catalog: the names kept by the size filter
    files,       \* the paths main scans
    flimit_sem,  \* the permits the semaphore has left
    handles,     \* how many tasks main has spawned
    joined,      \* how many handles main has awaited
    task,        \* per file of files: the task reading and processing it
    mutex,       \* STDOUT_MUTEX: the task holding it (0: free), and poisoned
    stdout,      \* the lines printed, in order
    opened,      \* the paths some task has opened
    wegg,        \* the state of one call of weggling_time (wegg.rs)
    hl           \* the state of one call of apply_highlight_ranges

vars == <<args, dwarf, tree, pc, struct_map, files, flimit_sem, handles, joined,
          task, mutex, stdout, opened, wegg, hl>>

(* main.rs:259: stdout is not a terminal, apply_highlight_ranges is not called *)
NoTerminal == [pc |-> "not called"]

(* main.rs has no `mod wegg`: a run of main never calls weggling_time *)
NotCalled == [pc |-> "not called"]

(* a task: its position, the match it is at, the lines it has still to print,
   whether display_match panics after them, and the kind of thread that polls
   the body of process_file_content ("none" while it is not being polled) *)
Idle == [pc |-> "idle", m |-> 0, out |-> <<>>, panic |-> FALSE, on |-> "none"]

Start ==
    /\ pc = "catalog"
    /\ struct_map = {}
    /\ files = <<>>
    /\ flimit_sem = 0
    /\ handles = 0
    /\ joined = 0
    /\ task = [i \in 1..MaxFiles |-> Idle]
    /\ mutex = [holder |-> 0, poisoned |-> FALSE]
    /\ stdout = <<>>
    /\ opened = {}
    /\ wegg = NotCalled
    /\ hl = NoTerminal

Init ==
    /\ dwarf = KernelTypes
    /\ tree \in Trees
    /\ args \in [lower_bound : {0, 1}, upper_bound : {2}, flags : FlagsArgs,
                 exclude : ExcludeArgs, threads : ThreadsArgs, quiet : {FALSE}]
    /\ Start

(* the same program started with and without --quiet (main.rs:40-47) *)
QuietInit ==
    /\ dwarf = KernelTypes
    /\ tree \in Trees
    /\ args \in [lower_bound : {0}, upper_bound : {2},
                 flags : {None, Some(GFP_ATOMIC)}, exclude : {<<>>},
                 threads : {None, Some(2)}, quiet : BOOLEAN]
    /\ Start

(***************************************************************************)
(* main.rs:93-104, the catalog.                                            *)
(***************************************************************************)
(* the other convention: lower bound inclusive, upper bound exclusive *)
SizeInBound_LowerInclusive(bytesz, lower_bound, upper_bound) ==
    lower_bound <= bytesz /\ bytesz < upper_bound

SizeInBound(bytesz, lower_bound, upper_bound) ==
    lower_bound < bytesz /\ bytesz <= upper_bound

Catalog(types, lower_bound, upper_bound) ==
    { n \in DOMAIN types :
        IF types[n] # NoSize
        THEN SizeInBound(types[n], lower_bound, upper_bound)
        ELSE FALSE }

BuildCatalog ==
    /\ pc = "catalog"
    /\ struct_map' = Catalog(dwarf, args.lower_bound, args.upper_bound)
    /\ pc' = "files"
    /\ UNCHANGED <<hl, wegg, args, dwarf, tree, files, flimit_sem, handles, joined, task,
                   mutex, stdout, opened>>

(***************************************************************************)
(* main.rs:69-81 and 106-131, the file list.                               *)
(***************************************************************************)
IsSource(path) == Extension(path) = <<"c">> \/ Extension(path) = <<"h">>

collect_src_files(dir) ==
    LET found == SelectSeq(dir, LAMBDA f : IsSource(f.path))
    IN  [i \in 1..Len(found) |-> found[i].path]

(* the test of main.rs:120 without its negation *)
Kept_Inverted(exclude_globs, path) == is_match(exclude_globs, path)

(* main.rs:120: the file is kept *)
Kept(exclude_globs, path) == ~is_match(exclude_globs, path)

FilterFiles(iter_files, exclude_globs) ==
    IF Len(exclude_globs) > 0
    THEN SelectSeq(iter_files, LAMBDA path : Kept(exclude_globs, path))
    ELSE iter_files

GlobsValid(exclude_globs) ==
    \A g \in 1..Len(exclude_globs) : GlobValid(exclude_globs[g])

MainLine(kind) == [f |-> 0, m |-> 0, kind |-> kind, val |-> 0]

CollectFiles ==
    /\ pc = "files"
    /\ IF ~GlobsValid(args.exclude)
       THEN /\ pc' = "failed"
            /\ UNCHANGED <<files, stdout>>
       ELSE LET kept == FilterFiles(collect_src_files(tree), args.exclude)
            IN  /\ files' = kept
                /\ IF Len(kept) = 0
                   THEN /\ stdout' = Append(stdout, MainLine("exiting"))
                        /\ pc' = "returned"
                   ELSE /\ pc' = "semaphore"
                        /\ UNCHANGED stdout
    /\ UNCHANGED <<hl, wegg, args, dwarf, tree, struct_map, flimit_sem, handles, joined,
                   task, mutex, opened>>

(***************************************************************************)
(* main.rs:133-141, the semaphore.                                         *)
(***************************************************************************)
unwrap_or(option, default) == IF option = None THEN default ELSE option[2]

Threads == unwrap_or(args.threads, 1)

CreateSemaphore ==
    /\ pc = "semaphore"
    /\ IF Threads > ThreadCeiling
       THEN /\ pc' = "panicked"
            /\ UNCHANGED flimit_sem
       ELSE /\ flimit_sem' = Threads
            /\ pc' = "spawn"
    /\ UNCHANGED <<hl, wegg, args, dwarf, tree, struct_map, files, handles, joined, task,
                   mutex, stdout, opened>>

(***************************************************************************)
(* main.rs:143-155: acquire_owned().await, then tokio::spawn.              *)
(***************************************************************************)
(* spawning without waiting for a permit *)
PermitAvailable_NoWait == TRUE

PermitAvailable == flimit_sem > 0

SpawnNext ==
    /\ pc = "spawn"
    /\ PermitAvailable
    /\ flimit_sem' = flimit_sem - 1
    /\ handles' = handles + 1
    /\ task' = [task EXCEPT ![handles + 1].pc = "open"]
    /\ pc' = IF handles + 1 = Len(files) THEN "join" ELSE "spawn"
    /\ UNCHANGED <<hl, wegg, args, dwarf, tree, struct_map, files, joined, mutex, stdout,
                   opened>>

(***************************************************************************)
(* main.rs:158-162: handle.await.unwrap() in spawn order, then Ok(()).     *)
(***************************************************************************)
(* returning without awaiting the handle *)
Finished_NoWait(i) == TRUE

Finished(i) == task[i].pc \in {"done", "panicked"}

JoinNext ==
    /\ pc = "join"
    /\ Finished(joined + 1)
    /\ IF task[joined + 1].pc = "panicked"
       THEN /\ pc' = "panicked"
            /\ UNCHANGED joined
       ELSE /\ joined' = joined + 1
            /\ pc' = IF joined + 1 = Len(files) THEN "returned" ELSE "join"
    /\ UNCHANGED <<hl, wegg, args, dwarf, tree, struct_map, files, flimit_sem, handles,
                   task, mutex, stdout, opened>>

(* the exit code of the process: Ok(()) 0, Err 1, a panic of main 101 *)
ExitCode ==
    CASE pc = "returned" -> 0
      [] pc = "failed" -> 1
      [] pc = "panicked" -> 101
      [] OTHER -> -1

MainEnded == pc \in {"returned", "failed", "panicked"}

(***************************************************************************)
(* The task of files[i] (main.rs:148-153): read_and_process_file, then     *)
(* drop(permit).  A task that panics, or that the runtime drops, gives its *)
(* permit back as well: the permit is owned by the task's future.          *)
(***************************************************************************)
FileAt(path) == CHOOSE f \in { tree[j] : j \in 1..Len(tree) } : f.path = path

FileOf(i) == FileAt(files[i])

Tasks == 1..Len(files)

(* the runtime polls tasks until main leaves block_on *)
RuntimeUp == ~MainEnded

Ends(i, how) ==
    /\ task' = [task EXCEPT ![i] = [pc |-> how, m |-> @.m, out |-> <<>>, panic |-> FALSE,
                                    on |-> "none"]]
    /\ flimit_sem' = flimit_sem + 1

(* main.rs:427-429: File::open and read_to_end; an Err is unwrapped at 151 *)
OpenAndRead(i) ==
    /\ RuntimeUp
    /\ task[i].pc = "open"
    /\ opened' = opened \cup {files[i]}
    /\ IF FileOf(i).readable
       THEN /\ task' = [task EXCEPT ![i].pc = "blocking"]
            /\ UNCHANGED flimit_sem
       ELSE Ends(i, "panicked")
    /\ UNCHANGED <<hl, wegg, args, dwarf, tree, pc, struct_map, files, handles, joined,
                   mutex, stdout>>

(* main.rs:431-437: the closure given to spawn_blocking runs on a thread of
   the blocking pool, where it only calls the async fn process_file_content:
   that builds the future and runs none of its body.  `.await?` hands the
   future back to the task, and the second `.await` polls it where the task
   itself is polled, on a worker thread of the async runtime. *)
SpawnBlocking(i) ==
    /\ RuntimeUp
    /\ task[i].pc = "blocking"
    /\ task' = [task EXCEPT ![i].pc = "process", ![i].m = 1, ![i].on = "worker"]
    /\ UNCHANGED <<hl, wegg, args, dwarf, tree, pc, struct_map, files, flimit_sem, handles,
                   joined, mutex, stdout, opened>>

(* main.rs:389-392 *)
FlagsRegex(flags_regex_str) == RegexNew(unwrap_or(flags_regex_str, MatchAny))

(* main.rs:388: the struct of the match is in the catalog *)
InCatalog(map, struct_name) == struct_name \in map

(* the match is displayed whatever its flags *)
FlagsPass_Ignored(re, flags) == TRUE

(* main.rs:400: the flags text passes the regex *)
FlagsPass(re, flags) == RegexFind(re, flags)

(* main.rs:377-416, one turn of the loop over the matches, up to the lock of
   display_match *)
ProcessMatch(i) ==
    /\ task[i].pc = "process"
    /\ LET file == FileOf(i)
           m == task[i].m
       IN  IF m > Len(file.matches)
           THEN Ends(i, "done")
           ELSE LET qm == file.matches[m]
                    re == FlagsRegex(args.flags)
                IN  IF ~InCatalog(struct_map, Text(file.content, qm.struct_name))
                    THEN /\ task' = [task EXCEPT ![i].m = m + 1]
                         /\ UNCHANGED flimit_sem
                    ELSE IF ~re.ok
                    THEN Ends(i, "done")
                    ELSE IF ~FlagsPass(re, Text(file.content, qm.flags))
                    THEN /\ task' = [task EXCEPT ![i].m = m + 1]
                         /\ UNCHANGED flimit_sem
                    ELSE LET shown == display_match(file.content, qm)
                         IN  IF shown.before_lock
                             THEN Ends(i, "panicked")
                             ELSE /\ task' = [task EXCEPT ![i] =
                                        [pc |-> "lock", m |-> m,
                                         out |-> shown.lines, panic |-> shown.panic,
                                         on |-> task[i].on]]
                                  /\ UNCHANGED flimit_sem
    /\ UNCHANGED <<hl, wegg, args, dwarf, tree, pc, struct_map, files, handles, joined,
                   mutex, stdout, opened>>

(* printing without waiting for the lock *)
MutexFree_NoWait == TRUE

(* main.rs:263: STDOUT_MUTEX.lock().expect(..) *)
MutexFree == mutex.holder = 0

LockStdout(i) ==
    /\ task[i].pc = "lock"
    /\ MutexFree
    /\ IF mutex.poisoned
       THEN /\ Ends(i, "panicked")
            /\ UNCHANGED mutex
       ELSE /\ mutex' = [mutex EXCEPT !.holder = i]
            /\ task' = [task EXCEPT ![i].pc = "print"]
            /\ UNCHANGED flimit_sem
    /\ UNCHANGED <<hl, wegg, args, dwarf, tree, pc, struct_map, files, handles, joined,
                   stdout, opened>>

(* main.rs:265-304, one println! *)
PrintLine(i) ==
    /\ task[i].pc = "print"
    /\ task[i].out # <<>>
    /\ LET l == Head(task[i].out)
       IN  stdout' = Append(stdout,
                            [f |-> i, m |-> task[i].m, kind |-> l.kind, val |-> l.val])
    /\ task' = [task EXCEPT ![i].out = Tail(@)]
    /\ UNCHANGED <<hl, wegg, args, dwarf, tree, pc, struct_map, files, flimit_sem, handles,
                   joined, mutex, opened>>

(* main.rs:306 drop(lock), or the panic of 282-301 unwinding through the
   guard, which poisons the mutex *)
Unlock(i) ==
    /\ task[i].pc = "print"
    /\ task[i].out = <<>>
    /\ IF task[i].panic
       THEN /\ mutex' = [holder |-> 0, poisoned |-> TRUE]
            /\ Ends(i, "panicked")
       ELSE /\ mutex' = [mutex EXCEPT !.holder = 0]
            /\ task' = [task EXCEPT ![i].pc = "process", ![i].m = @ + 1]
            /\ UNCHANGED flimit_sem
    /\ UNCHANGED <<hl, wegg, args, dwarf, tree, pc, struct_map, files, handles, joined,
                   stdout, opened>>

(* main has left block_on: a task waiting at an await is dropped *)
Cancel(i) ==
    /\ MainEnded
    /\ task[i].pc \in {"open", "blocking"}
    /\ Ends(i, "cancelled")
    /\ UNCHANGED <<hl, wegg, args, dwarf, tree, pc, struct_map, files, handles, joined,
                   mutex, stdout, opened>>

Next ==
    \/ BuildCatalog
    \/ CollectFiles
    \/ CreateSemaphore
    \/ SpawnNext
    \/ JoinNext
    \/ \E i \in Tasks : OpenAndRead(i)
    \/ \E i \in Tasks : SpawnBlocking(i)
    \/ \E i \in Tasks : ProcessMatch(i)
    \/ \E i \in Tasks : LockStdout(i)
    \/ \E i \in Tasks : PrintLine(i)
    \/ \E i \in Tasks : Unlock(i)
    \/ \E i \in Tasks : Cancel(i)

Spec == Init /\ [][Next]_vars

QuietSpec == QuietInit /\ [][Next]_vars

(***************************************************************************)
(* The catalog alone, over every size and every pair of bounds.            *)
(***************************************************************************)
CatalogInit ==
    /\ dwarf \in [StructNames -> Sizes]
    /\ tree = <<>>
    /\ args \in [lower_bound : 0..MaxSize, upper_bound : 0..MaxSize,
                 flags : {None}, exclude : {<<>>}, threads : {None},
                 quiet : {FALSE}]
    /\ Start

CatalogNext == BuildCatalog

CatalogSpec == CatalogInit /\ [][CatalogNext]_vars

(***************************************************************************)
(* wegg.rs: weggling_time (54-81) and its two stages.                      *)
(*                                                                         *)
(* rayon::scope spawns parse_files_worker (Stage 1) and                    *)
(* execute_queries_worker (Stage 2) on a pool of wegg.pool threads.        *)
(* Stage 1 reads, prefilters and parses the files and sends them on an     *)
(* std::sync::mpsc channel; Stage 2 receives them through par_bridge, on   *)
(* as many threads as the pool leaves it, runs every query of `work` on    *)
(* each and prints with println!.                                          *)
(***************************************************************************)
(* a byte that is not valid UTF-8, and U+FFFD, which replaces it *)
InvalidByte == "xFF"
Replacement == "uFFFD"

(* wegg.rs:211, String::from_utf8_lossy *)
from_utf8_lossy(c) ==
    [p \in 1..Len(c) |-> IF c[p] = InvalidByte THEN Replacement ELSE c[p]]

(* wegg.rs:41-44.  qt stands for the compiled query: the struct and the
   allocator whose calls it matches. *)
WorkItem(struct, func) ==
    [qt |-> [struct |-> struct, func |-> func], identifiers |-> <<struct, func>>]

(* the queries for one struct: its allocations through k( ) and through kz( ) *)
Work(struct_name) ==
    <<WorkItem(struct_name, <<"k">>), WorkItem(struct_name, <<"k", "z">>)>>

(* wegg.rs:140, qt.matches(tree.root_node(), &source) *)
QtMatches(qt, source, file) ==
    SelectSeq(file.matches,
              LAMBDA qm : /\ Text(source, qm.struct_name) = qt.struct
                          /\ Text(source, qm.assign_func) = qt.func)

Path_l == <<"l", ".", "c">>

InTree(path) == CHOOSE f \in { KernelTree[j] : j \in 1..Len(KernelTree) } : f.path = path

(* The files handed to weggling_time, in the order of the list:
   a.c, b.h and u.c as above;
   l.c  a comment naming A and kz after a byte that is not UTF-8: no match *)
WeggTree ==
    << InTree(Path_a), InTree(Path_b), InTree(Path_u),
       SourceFile(Path_l, TRUE, <<"/", "/", InvalidByte, "A", " ", "k", "z", NL>>, <<>>) >>

WeggTrees ==
    { SelectSeq(WeggTree, LAMBDA f : f.path \in keep) :
        keep \in { k \in SUBSET { WeggTree[i].path : i \in 1..Len(WeggTree) } :
                     Cardinality(k) <= MaxFiles } }

(* one Stage 2 thread: the file it took from the channel (0: none yet), the
   next query to run on it, and the lines it has still to print *)
Consumer(active, item, q, out) ==
    [active |-> active, item |-> item, q |-> q, out |-> out]

Absent == Consumer(FALSE, 0, 1, <<>>)

(* wegg.rs:58-80: the state when rayon::scope has spawned the two stages *)
WeggStart(pool, struct_name, flags_regex, quiet) ==
    [pc |-> "scope", pool |-> pool, struct_name |-> struct_name,
     flags_regex |-> flags_regex, quiet |-> quiet,
     stage1 |-> "queued", stage2 |-> "queued",
     seen |-> {}, parsed |-> {},
     sends |-> [f \in 1..MaxFiles |-> 0], recvs |-> [f \in 1..MaxFiles |-> 0],
     ran |-> {}, chan |-> <<>>,
     consumer |-> [c \in 1..MaxPool |-> Absent]]

WeggInit ==
    /\ dwarf = KernelTypes
    /\ tree \in WeggTrees
    /\ args = [lower_bound |-> 0, upper_bound |-> 2, flags |-> None,
               exclude |-> <<>>, threads |-> None, quiet |-> FALSE]
    /\ pc = "weggling_time"
    /\ struct_map = {}
    /\ files = [i \in 1..Len(tree) |-> tree[i].path]
    /\ flimit_sem = 0
    /\ handles = 0
    /\ joined = 0
    /\ task = [i \in 1..MaxFiles |-> Idle]
    /\ mutex = [holder |-> 0, poisoned |-> FALSE]
    /\ stdout = <<>>
    /\ opened = {}
    /\ hl = NoTerminal
    /\ wegg \in { WeggStart(pool, struct_name, flags_regex, quiet) :
                    pool \in 1..MaxPool,
                    struct_name \in { <<"A">>, <<"B">> },
                    flags_regex \in { RegexNew(MatchAny), RegexNew(GFP_ATOMIC) },
                    quiet \in BOOLEAN }

MainUnchanged ==
    UNCHANGED <<hl, args, dwarf, tree, pc, struct_map, files, flimit_sem, handles,
                joined, task, mutex, opened>>

Consumers == { c \in 1..MaxPool : wegg.consumer[c].active }

(* the threads of the pool that run neither stage *)
FreeThreads ==
    wegg.pool - (IF wegg.stage1 = "running" THEN 1 ELSE 0) - Cardinality(Consumers)

(* wegg.rs:71: a thread of the pool takes the Stage 1 job *)
StartStage1 ==
    /\ wegg.stage1 = "queued"
    /\ FreeThreads > 0
    /\ wegg' = [wegg EXCEPT !.stage1 = "running"]
    /\ UNCHANGED stdout
    /\ MainUnchanged

(* every work item is needed for a file to pass *)
potential_match_AllItems(work, source) ==
    \A w \in 1..Len(work) :
        \A i \in 1..Len(work[w].identifiers) : Contains(source, work[w].identifiers[i])

(* wegg.rs:213-215 *)
potential_match(work, source) ==
    \E w \in 1..Len(work) :
        \A i \in 1..Len(work[w].identifiers) : Contains(source, work[w].identifiers[i])

(* wegg.rs:205-226: None, or the decoded source of the parsed file *)
maybe_parse(file, work) ==
    IF ~file.readable THEN None
    ELSE LET source == from_utf8_lossy(file.content)
         IN  IF ~potential_match(work, source) THEN None ELSE Some(source)

(* wegg.rs:202-236: one file of the list, in any order *)
ParseFile(f) ==
    /\ wegg.stage1 = "running"
    /\ f \in 1..Len(files)
    /\ f \notin wegg.seen
    /\ IF maybe_parse(FileOf(f), Work(wegg.struct_name)) = None
       THEN wegg' = [wegg EXCEPT !.seen = @ \cup {f}]
       ELSE wegg' = [wegg EXCEPT !.seen = @ \cup {f},
                                 !.parsed = @ \cup {f},
                                 !.sends[f] = @ + 1,
                                 !.chan = Append(@, f)]
    /\ UNCHANGED stdout
    /\ MainUnchanged

(* wegg.rs:236: for_each_with returns, the sender and its clones are dropped *)
FinishStage1 ==
    /\ wegg.stage1 = "running"
    /\ wegg.seen = 1..Len(files)
    /\ wegg' = [wegg EXCEPT !.stage1 = "done"]
    /\ UNCHANGED stdout
    /\ MainUnchanged

(* wegg.rs:77, 132: a thread of the pool takes the Stage 2 job *)
StartStage2 ==
    /\ wegg.stage2 = "queued"
    /\ FreeThreads > 0
    /\ wegg' = [wegg EXCEPT !.stage2 = "running",
                            !.consumer[1] = Consumer(TRUE, 0, 1, <<>>)]
    /\ UNCHANGED stdout
    /\ MainUnchanged

(* wegg.rs:132, par_bridge: a free thread steals a share of Stage 2.  The
   Stage 1 job was pushed first (71, then 77) and a thief takes the oldest
   job, so this happens only once Stage 1 has been taken. *)
JoinStage2 ==
    /\ wegg.stage2 = "running"
    /\ wegg.stage1 # "queued"
    /\ FreeThreads > 0
    /\ LET c == CHOOSE c \in 1..MaxPool :
                    c \notin Consumers /\ \A d \in 1..(c - 1) : d \in Consumers
       IN  wegg' = [wegg EXCEPT !.consumer[c] = Consumer(TRUE, 0, 1, <<>>)]
    /\ UNCHANGED stdout
    /\ MainUnchanged

(* the thread has nothing left to do for the file it took *)
Waiting(c) ==
    LET w == wegg.consumer[c]
    IN  w.item = 0 \/ (w.q > Len(Work(wegg.struct_name)) /\ w.out = <<>>)

(* wegg.rs:132: the next item of receiver.into_iter() *)
Recv(c) ==
    /\ c \in Consumers
    /\ Waiting(c)
    /\ wegg.chan # <<>>
    /\ LET f == Head(wegg.chan)
       IN  wegg' = [wegg EXCEPT !.chan = Tail(@),
                                !.recvs[f] = @ + 1,
                                !.consumer[c] = Consumer(TRUE, f, 1, <<>>)]
    /\ UNCHANGED stdout
    /\ MainUnchanged

WLine(kind, val, f, q) == [kind |-> kind, val |-> val, f |-> f, m |-> q]

(* wegg.rs:152-160: the match is kept *)
process_match(flags_regex, source, qm) ==
    RegexFind(flags_regex, Text(source, qm.flags))

(* wegg.rs:140-186: what one query prints for one file, one println! each *)
QueryOutput(f, q) ==
    LET source == from_utf8_lossy(FileOf(f).content)
        matches == QtMatches(Work(wegg.struct_name)[q].qt, source, FileOf(f))
        results == SelectSeq(matches,
                             LAMBDA qm : process_match(wegg.flags_regex, source, qm))
    IN  IF matches = <<>> THEN <<>>
        ELSE IF ~wegg.quiet
        THEN IF Len(results) > 0
             THEN <<WLine("header", wegg.struct_name, f, q),
                    WLine("layout", wegg.struct_name, f, q)>>
                  \o [k \in 1..Len(results) |-> WLine("result", k, f, q)]
             ELSE <<>>
        ELSE <<WLine("name", wegg.struct_name, f, q)>>

(* wegg.rs:136-176: the next query of `work` on the file the thread holds *)
RunQuery(c) ==
    /\ c \in Consumers
    /\ LET w == wegg.consumer[c]
       IN  /\ w.item # 0
           /\ w.out = <<>>
           /\ w.q <= Len(Work(wegg.struct_name))
           /\ wegg' = [wegg EXCEPT !.ran = @ \cup {<<w.item, w.q>>},
                                   !.consumer[c].q = w.q + 1,
                                   !.consumer[c].out = QueryOutput(w.item, w.q)]
    /\ UNCHANGED stdout
    /\ MainUnchanged

(* wegg.rs:179-185: one println!; nothing is held from one to the next *)
Println(c) ==
    /\ c \in Consumers
    /\ wegg.consumer[c].out # <<>>
    /\ stdout' = Append(stdout, Head(wegg.consumer[c].out))
    /\ wegg' = [wegg EXCEPT !.consumer[c].out = Tail(@)]
    /\ MainUnchanged

(* wegg.rs:132-189: the iterator ends when the channel is empty and every
   sender is gone *)
FinishStage2 ==
    /\ wegg.stage2 = "running"
    /\ wegg.stage1 = "done"
    /\ wegg.chan = <<>>
    /\ \A c \in Consumers : Waiting(c)
    /\ wegg' = [wegg EXCEPT !.stage2 = "done",
                            !.consumer = [c \in 1..MaxPool |-> Absent]]
    /\ UNCHANGED stdout
    /\ MainUnchanged

(* wegg.rs:80-81: the scope ends when both jobs have *)
ScopeReturns ==
    /\ wegg.pc = "scope"
    /\ wegg.stage1 = "done"
    /\ wegg.stage2 = "done"
    /\ wegg' = [wegg EXCEPT !.pc = "returned"]
    /\ UNCHANGED stdout
    /\ MainUnchanged

WeggNext ==
    \/ StartStage1
    \/ \E f \in 1..MaxFiles : ParseFile(f)
    \/ FinishStage1
    \/ StartStage2
    \/ JoinStage2
    \/ \E c \in 1..MaxPool : Recv(c)
    \/ \E c \in 1..MaxPool : RunQuery(c)
    \/ \E c \in 1..MaxPool : Println(c)
    \/ FinishStage2
    \/ ScopeReturns

WeggSpec == WeggInit /\ [][WeggNext]_vars

(***************************************************************************)
(* apply_highlight_ranges (main.rs:181-202), called by display_match       *)
(* (main.rs:259-261) when stdout is a terminal.                            *)
(*                                                                         *)
(* hl is one call: the function text it was given, base_range, the ranges  *)
(* to highlight, the text as rewritten so far, added_bytes and the index   *)
(* of the next range of the loop.                                          *)
(***************************************************************************)
(* the byte 0x1b *)
ESC == "ESC"

(* main.rs:189-193 and 196-199: the characters inserted *)
Red == <<ESC, "[", "3", "1", "m">>
Reset == <<ESC, "[", "0", "m">>

(* main.rs:195: the shift of insert_end past the opening sequence *)
RedBytes == 5

(* main.rs:200: what one range adds *)
EscapeBytes == 9

(* String::insert, one character after the other from index at *)
InsertStr(content, at, chars) ==
    SubSeq(content, 1, at) \o chars \o SubSeq(content, at + 1, Len(content))

(* main.rs:188 *)
insert_start(range, base_range, added_bytes) ==
    (range.start - base_range.start) + added_bytes

(* the closing sequence placed as if nothing had been inserted before it *)
insert_end_NoShift(range, base_range, added_bytes) ==
    (range.end - base_range.start) + added_bytes

(* main.rs:195 *)
insert_end(range, base_range, added_bytes) ==
    (range.end - base_range.start) + added_bytes + RedBytes

(* the text of a function: the first n characters of p=k(G)p=k(G).. *)
Alphabet == <<"p", "=", "k", "(", "G", ")">>
FunctionText(n) == [i \in 1..n |-> Alphabet[((i - 1) % Len(Alphabet)) + 1]]

(* where the function starts in its file *)
BaseStarts == {0, 1}

RangesIn(base_range) ==
    { r \in [start : base_range.start..base_range.end,
              end : base_range.start..base_range.end] : r.start <= r.end }

(* the lists of at most MaxRanges ranges inside base_range, in any order *)
RangeLists(base_range) ==
    UNION { [1..n -> RangesIn(base_range)] : n \in 0..MaxRanges }

Call(function_src, base_range, highlight_ranges) ==
    [pc |-> "highlight", original |-> function_src, base_range |-> base_range,
     highlight_ranges |-> highlight_ranges, function_src |-> function_src,
     added_bytes |-> 0, next |-> 1]

HighlightInit ==
    /\ dwarf = KernelTypes
    /\ tree = <<>>
    /\ args = [lower_bound |-> 0, upper_bound |-> 2, flags |-> None,
               exclude |-> <<>>, threads |-> None, quiet |-> FALSE]
    /\ pc = "display_match"
    /\ struct_map = {}
    /\ files = <<>>
    /\ flimit_sem = 0
    /\ handles = 0
    /\ joined = 0
    /\ task = [i \in 1..MaxFiles |-> Idle]
    /\ mutex = [holder |-> 0, poisoned |-> FALSE]
    /\ stdout = <<>>
    /\ opened = {}
    /\ wegg = NotCalled
    /\ hl \in { Call(FunctionText(n), Range(s, s + n), ranges) :
                  <<n, s, ranges>> \in
                      UNION { UNION { { <<n, s, r>> : r \in RangeLists(Range(s, s + n)) } :
                                      s \in BaseStarts } : n \in 0..MaxText } }

OthersUnchanged ==
    UNCHANGED <<args, dwarf, tree, pc, struct_map, files, flimit_sem, handles,
                joined, task, mutex, stdout, opened, wegg>>

(* main.rs:187-201: one pass of the loop *)
HighlightRange ==
    /\ hl.pc = "highlight"
    /\ hl.next <= Len(hl.highlight_ranges)
    /\ LET range == hl.highlight_ranges[hl.next]
           red == InsertStr(hl.function_src,
                            insert_start(range, hl.base_range, hl.added_bytes), Red)
           reset == InsertStr(red,
                              insert_end(range, hl.base_range, hl.added_bytes), Reset)
       IN  hl' = [hl EXCEPT !.function_src = reset,
                            !.added_bytes = @ + EscapeBytes,
                            !.next = @ + 1]
    /\ OthersUnchanged

(* main.rs:202: the loop is over *)
HighlightReturn ==
    /\ hl.pc = "highlight"
    /\ hl.next > Len(hl.highlight_ranges)
    /\ hl' = [hl EXCEPT !.pc = "returned"]
    /\ OthersUnchanged

HighlightNext == HighlightRange \/ HighlightReturn

HighlightSpec == HighlightInit /\ [][HighlightNext]_vars

(***************************************************************************)
(* What the properties talk about.                                         *)
(***************************************************************************)
Matches(i) == 1..Len(FileOf(i).matches)

(* the lines of stdout that belong to match k of files[i] *)
BlockLines(i, k) == SelectSeq(stdout, LAMBDA l : l.f = i /\ l.m = k)

BlockStarted(i, k) == \E p \in 1..Len(stdout) : stdout[p].f = i /\ stdout[p].m = k

(* header, layout, blank, path:line, the excerpt, blank *)
IsCompleteBlock(lines) ==
    /\ Len(lines) >= 6
    /\ lines[1].kind = "header"
    /\ lines[2].kind = "layout"
    /\ lines[3].kind = "blank"
    /\ lines[4].kind = "path"
    /\ \A p \in 5..(Len(lines) - 1) : lines[p].kind \in {"dots", "src"}
    /\ \E p \in 5..(Len(lines) - 1) : lines[p].kind = "src"
    /\ lines[Len(lines)].kind = "blank"

(* the struct of match k of files[i] is catalogued and its flags text holds a
   match of the --flags regex (any text, when --flags is absent) *)
Accepted(i, k) ==
    LET file == FileOf(i)
        qm == file.matches[k]
    IN  /\ Text(file.content, qm.struct_name) \in struct_map
        /\ \/ args.flags = None
           \/ /\ RegexNew(args.flags[2]).ok
              /\ RegexFind(RegexNew(args.flags[2]), Text(file.content, qm.flags))

(* display_match has been entered for match k of files[i] *)
Displayed(i, k) ==
    \/ BlockStarted(i, k)
    \/ task[i].m = k /\ task[i].pc \in {"lock", "print", "panicked"}

(* the loop of process_file_content has dealt with match k of files[i] *)
Decided(i, k) ==
    \/ task[i].m > k
    \/ task[i].m = k /\ task[i].pc \in {"lock", "print", "panicked", "done"}

InFlight == { i \in Tasks : task[i].pc \in {"open", "blocking", "process", "lock", "print"} }

Scanning == pc \in {"spawn", "join", "returned", "panicked"} /\ Len(files) > 0

(***************************************************************************)
(* C1.  Once main has built the catalog, a struct is in it iff its byte    *)
(* size can be read and lower_bound < size <= upper_bound.  Where          *)
(* lower_bound < upper_bound, a struct of size lower_bound is absent and a *)
(* struct of size upper_bound is present.                                  *)
(***************************************************************************)
C1_CatalogBound ==
    pc # "catalog" =>
        \A S \in DOMAIN dwarf :
            /\ S \in struct_map <=>
                   /\ dwarf[S] # NoSize
                   /\ dwarf[S] > args.lower_bound
                   /\ ~(dwarf[S] > args.upper_bound)
            /\ dwarf[S] = args.lower_bound => S \notin struct_map
            /\ (dwarf[S] = args.upper_bound /\ args.lower_bound < args.upper_bound)
                   => S \in struct_map

C1_Witness ==
    /\ pc = "files"
    /\ \E S \in DOMAIN dwarf : dwarf[S] = args.lower_bound /\ S \notin struct_map
    /\ \E S \in DOMAIN dwarf : dwarf[S] = args.upper_bound /\ S \in struct_map
    /\ \E S \in DOMAIN dwarf : dwarf[S] = NoSize /\ S \notin struct_map

(***************************************************************************)
(* C2.  No task ever opens a path that matches an --exclude glob, and the  *)
(* file list main scans holds exactly the .c/.h files of the tree that     *)
(* match no exclude glob.                                                  *)
(***************************************************************************)
Excluded(path) ==
    \E g \in 1..Len(args.exclude) : GlobMatch(args.exclude[g], path)

C2_ExcludedNeverRead ==
    /\ \A path \in opened : ~Excluded(path)
    /\ \A i \in 1..MaxFiles : task[i].pc # "idle" => (i \in Tasks /\ ~Excluded(files[i]))
    /\ pc \notin {"catalog", "files", "failed"} =>
           \A j \in 1..Len(tree) :
               InSeq(files, tree[j].path) <=>
                   /\ Extension(tree[j].path) \in {<<"c">>, <<"h">>}
                   /\ ~Excluded(tree[j].path)

C2_Witness ==
    /\ pc = "returned"
    /\ \E j \in 1..Len(tree) : Excluded(tree[j].path) /\ tree[j].path \notin opened
    /\ \E j \in 1..Len(tree) : ~Excluded(tree[j].path) /\ tree[j].path \in opened

OneAllocation ==
    /\ Scanning
    /\ Len(files) = 1
    /\ Threads \in 1..ThreadCeiling
    /\ args.flags = None
    /\ FileOf(1).readable
    /\ Len(FileOf(1).matches) = 1
    /\ Find(Text(FileOf(1).content, FileOf(1).matches[1].function_definition), "{") # -1
    /\ Text(FileOf(1).content, FileOf(1).matches[1].struct_name) \in struct_map

C4_OneCompleteBlock ==
    (OneAllocation /\ MainEnded) =>
        /\ pc = "returned"
        /\ task[1].pc = "done"
        /\ stdout = BlockLines(1, 1)
        /\ IsCompleteBlock(stdout)

(***************************************************************************)
(* C5.  The lines of one report block are contiguous on stdout: no line of *)
(* another block lies between two lines of a block.                        *)
(***************************************************************************)
SameBlock(a, b) == a.f = b.f /\ a.m = b.m

C5_BlocksDoNotInterleave ==
    \A p \in 1..(Len(stdout) - 1) :
        ~SameBlock(stdout[p], stdout[p + 1]) =>
            \A r \in (p + 2)..Len(stdout) : ~SameBlock(stdout[p], stdout[r])

C5_Witness ==
    \E i, j \in Tasks :
        /\ i # j
        /\ task[i].pc = "print"
        /\ task[i].out # <<>>
        /\ task[j].pc = "lock"
        /\ BlockStarted(i, task[i].m)

(***************************************************************************)
(* C6.  When main returns, the set of report blocks on stdout is the set   *)
(* of the blocks of the accepted matches of the files, each block as       *)
(* display_match prints it: it is fixed by the catalog, the file list and  *)
(* the flags regex, whatever the --threads value and the interleaving of   *)
(* the tasks, and with --threads 1 the blocks come in file order.          *)
(***************************************************************************)
BlocksOnStdout ==
    { <<i, k, BlockLines(i, k)>> : <<i, k>> \in
        { <<stdout[p].f, stdout[p].m>> : p \in { q \in 1..Len(stdout) : stdout[q].f > 0 } } }

OwnLines(i, k, lines) ==
    [p \in 1..Len(lines) |-> [f |-> i, m |-> k, kind |-> lines[p].kind, val |-> lines[p].val]]

BlocksOfFiles ==
    { <<ik[1], ik[2],
        OwnLines(ik[1], ik[2],
                 display_match(FileOf(ik[1]).content, FileOf(ik[1]).matches[ik[2]]).lines)>> :
        ik \in { x \in UNION { { <<i, k>> : k \in Matches(i) } : i \in Tasks } :
                    Accepted(x[1], x[2]) } }

C6_SameBlocksForAnyThreads ==
    (pc = "returned" /\ Len(files) > 0) =>
        /\ BlocksOnStdout = BlocksOfFiles
        /\ Threads = 1 =>
               \A p \in 1..(Len(stdout) - 1) :
                   \/ stdout[p].f < stdout[p + 1].f
                   \/ stdout[p].f = stdout[p + 1].f /\ stdout[p].m <= stdout[p + 1].m

C6_Witness ==
    /\ pc = "returned"
    /\ Threads > 1
    /\ \E p, q \in 1..Len(stdout) : p < q /\ stdout[p].f > stdout[q].f
    /\ Cardinality(BlocksOnStdout) >= 2

(***************************************************************************)
(* C7.  While main scans, the tasks that hold a permit number at most      *)
(* --threads (at most 1 without --threads), and the permits held plus the  *)
(* permits left in the semaphore are --threads: a task is spawned only     *)
(* with a permit taken, and gives it back when it ends.                    *)
(***************************************************************************)
C7_PermitsBoundTasks ==
    (Scanning /\ Threads <= ThreadCeiling) =>
        /\ Cardinality(InFlight) <= Threads
        /\ args.threads = None => Cardinality(InFlight) <= 1
        /\ flimit_sem >= 0
        /\ flimit_sem + Cardinality(InFlight) = Threads
        /\ \A i \in Tasks : i > handles => task[i].pc = "idle"

C7_Witness ==
    /\ pc = "spawn"
    /\ Threads = 2
    /\ Cardinality(InFlight) = 2
    /\ handles < Len(files)
    /\ flimit_sem = 0

(***************************************************************************)
(* C8.  With an accepted --threads value and a non-empty list of readable  *)
(* files, the run does not stop before every task has finished and main    *)
(* has returned.                                                           *)
(***************************************************************************)
C8_RunsToCompletion ==
    (/\ Scanning
     /\ Threads <= ThreadCeiling
     /\ \A i \in Tasks : FileOf(i).readable)
        => \/ ENABLED Next
           \/ pc = "returned" /\ \A i \in Tasks : task[i].pc = "done"

(***************************************************************************)
(* C9.  A run whose file list holds a file that cannot be opened ends with *)
(* exit code 0, with no line printed for that file and every other file    *)
(* processed to its end.                                                   *)
(***************************************************************************)
C9_UnreadableSkipped ==
    (MainEnded /\ handles > 0 /\ \E i \in Tasks : ~FileOf(i).readable) =>
        /\ ExitCode = 0
        /\ \A i \in Tasks :
               IF FileOf(i).readable
               THEN task[i].pc = "done"
               ELSE \A p \in 1..Len(stdout) : stdout[p].f # i

(***************************************************************************)
(* C10.  When display_match finds no opening brace in the function text    *)
(* of a match (or no line for it), the run is not aborted: it ends with    *)
(* exit code 0 and every other file is processed to its end.               *)
(***************************************************************************)
HitAssumption(i) ==
    /\ task[i].pc = "panicked"
    /\ task[i].m \in Matches(i)
    /\ display_match(FileOf(i).content, FileOf(i).matches[task[i].m]).before_lock

C10_BraceFailureSkipped ==
    \A i \in Tasks :
        (MainEnded /\ HitAssumption(i)) =>
            /\ ExitCode = 0
            /\ \A j \in Tasks \ {i} : task[j].pc = "done"

(***************************************************************************)
(* C11.  With a --threads value above 1000 the run ends with a non-zero    *)
(* exit code and without any source file read, whatever the source tree    *)
(* and the exclude globs.                                                  *)
(***************************************************************************)
C11_ThreadCeilingFatal ==
    Threads > ThreadCeiling =>
        /\ opened = {}
        /\ MainEnded => ExitCode # 0

(***************************************************************************)
(* C12.  With an invalid --flags regex the run over a non-empty list of    *)
(* readable files ends with a non-zero exit code and without any source    *)
(* file read.                                                              *)
(***************************************************************************)
InvalidFlags == args.flags # None /\ ~RegexNew(args.flags[2]).ok

C12_InvalidRegexFatal ==
    (/\ InvalidFlags
     /\ MainEnded
     /\ Len(files) > 0
     /\ \A i \in Tasks : FileOf(i).readable)
        => (ExitCode # 0 /\ opened = {})

(***************************************************************************)
(* C13.  With --quiet every line printed for a match is the bare struct    *)
(* name: no header, layout, path:line or excerpt line.                     *)
(***************************************************************************)
C13_QuietOnlyNames ==
    args.quiet =>
        \A p \in 1..Len(stdout) : stdout[p].f > 0 => stdout[p].kind = "name"

(***************************************************************************)
(* C14.  While a task is in the parsing, matching or formatting steps of   *)
(* process_file_content, those steps are executed by a thread of the       *)
(* blocking pool, never by a worker thread of the async runtime.           *)
(***************************************************************************)
Processing(i) == task[i].pc \in {"process", "lock", "print"}

C14_ParseOffScheduler ==
    \A i \in Tasks : Processing(i) => task[i].on = "blocking"

(***************************************************************************)
(* C15.  In the output of execute_queries_worker the lines of one file are *)
(* one block: between two lines of a file no line of another file appears. *)
(***************************************************************************)
C15_FileBlockAtomic ==
    \A p \in 1..Len(stdout) : \A r \in p..Len(stdout) :
        stdout[p].f = stdout[r].f =>
            \A q \in p..r : stdout[q].f = stdout[p].f

(***************************************************************************)
(* C16.  Once parse_files_worker has handled a file, the file was parsed   *)
(* and sent, exactly once, if it can be read and for some work item every  *)
(* identifier occurs literally in its decoded text; otherwise it was       *)
(* neither parsed nor sent.  A file not handled yet was not sent.          *)
(***************************************************************************)
IsSubstring(sub, s) ==
    \E o \in 0..(Len(s) - Len(sub)) : \A j \in 1..Len(sub) : s[o + j] = sub[j]

Forwardable(f) ==
    /\ FileOf(f).readable
    /\ \E w \in 1..Len(Work(wegg.struct_name)) :
           \A i \in 1..Len(Work(wegg.struct_name)[w].identifiers) :
               IsSubstring(Work(wegg.struct_name)[w].identifiers[i],
                           from_utf8_lossy(FileOf(f).content))

C16_ForwardedIffPrefilter ==
    \A f \in 1..Len(files) :
        IF f \in wegg.seen
        THEN /\ f \in wegg.parsed <=> Forwardable(f)
             /\ wegg.sends[f] = (IF Forwardable(f) THEN 1 ELSE 0)
        ELSE /\ f \notin wegg.parsed
             /\ wegg.sends[f] = 0

(* Stage 1 is through a list with a file it sent, a readable file the
   prefilter rejected and a file it could not read *)
C16_Witness ==
    /\ wegg.stage1 = "done"
    /\ \E f \in 1..Len(files) : wegg.sends[f] = 1
    /\ \E f \in 1..Len(files) : FileOf(f).readable /\ ~Forwardable(f) /\ wegg.sends[f] = 0
    /\ \E f \in 1..Len(files) : ~FileOf(f).readable /\ wegg.sends[f] = 0

(***************************************************************************)
(* C17.  No item is received more often than it was sent; when Stage 2 has *)
(* finished it has received every item sent, once, and run every query of  *)
(* `work` on it; and until weggling_time has returned the pipeline can     *)
(* take a step, whatever the pool size and whichever stage starts first.   *)
(***************************************************************************)
C17_PipelineCompletes ==
    /\ \A f \in 1..MaxFiles : wegg.recvs[f] <= wegg.sends[f]
    /\ wegg.stage2 = "done" =>
           \A f \in 1..MaxFiles :
               /\ wegg.recvs[f] = wegg.sends[f]
               /\ wegg.sends[f] = 1 =>
                      \A q \in 1..Len(Work(wegg.struct_name)) : <<f, q>> \in wegg.ran
    /\ wegg.pc = "returned" \/ ENABLED WeggNext

(***************************************************************************)
(* C18.  The channel from Stage 1 to Stage 2 holds fewer items than the    *)
(* longest file list has files: some capacity below MaxFiles bounds it,    *)
(* and Stage 1 has to wait for Stage 2 before it sends the last of them.   *)
(***************************************************************************)
C18_ChannelBounded == Len(wegg.chan) < MaxFiles

(***************************************************************************)
(* C19.  Whenever no task is inside the printing section of display_match, *)
(* STDOUT_MUTEX is not held and a task that comes to lock it gets it,      *)
(* whether the blocks printed so far were completed or broken off.         *)
(***************************************************************************)
Printing(i) == task[i].pc = "print"

Acquirable == mutex.holder = 0 /\ ~mutex.poisoned

C19_LockFreeOutsideBlock ==
    (\A i \in Tasks : ~Printing(i)) => Acquirable

(***************************************************************************)
(* C20.  The excerpt of every complete block holds every line of the       *)
(* function from its first line through the line of its first "{".         *)
(***************************************************************************)
CountNL(s) == Cardinality({p \in 1..Len(s) : s[p] = NL})

(* the index, in the lines of the function, of the line holding the first "{" *)
BraceLineOf(content, qm) ==
    LET function_src == Text(content, qm.function_definition)
    IN  CountNL(Slice(function_src, 0, Find(function_src, "{")))

HasSrcLine(lines, idx) ==
    \E p \in 1..Len(lines) : lines[p].kind = "src" /\ lines[p].val = idx

C20_SignatureThroughBrace ==
    \A i \in Tasks : \A k \in Matches(i) :
        IsCompleteBlock(BlockLines(i, k)) =>
            \A idx \in 0..BraceLineOf(FileOf(i).content, FileOf(i).matches[k]) :
                HasSrcLine(BlockLines(i, k), idx)

(***************************************************************************)
(* C21.  In the excerpt of a block a "..." line stands only between two    *)
(* printed source lines whose indices are not adjacent: never before the   *)
(* first source line, and two source lines printed one after the other     *)
(* have adjacent indices.                                                  *)
(***************************************************************************)
C21_GapMarkers ==
    \A i \in Tasks : \A k \in Matches(i) :
        LET b == BlockLines(i, k)
        IN  \A p \in 2..Len(b) :
                /\ b[p].kind = "dots" =>
                       /\ b[p - 1].kind = "src"
                       /\ (p < Len(b) /\ b[p + 1].kind = "src") =>
                              b[p + 1].val # b[p - 1].val + 1
                /\ (b[p].kind = "src" /\ b[p - 1].kind = "src") =>
                       b[p].val = b[p - 1].val + 1

(***************************************************************************)
(* C22.  When apply_highlight_ranges has returned, for ranges that are     *)
(* ascending, pairwise disjoint and inside base_range: the text without    *)
(* the escape sequences is the function text it was given, and the texts   *)
(* between each opening sequence and the closing sequence after it are, in *)
(* order, the captured spans.                                              *)
(***************************************************************************)
StartsWith(s, p, sub) ==
    p + Len(sub) - 1 <= Len(s) /\ SubSeq(s, p, p + Len(sub) - 1) = sub

RECURSIVE StripFrom(_, _)
(* s from position p on, with every escape sequence left out *)
StripFrom(s, p) ==
    IF p > Len(s) THEN <<>>
    ELSE IF StartsWith(s, p, Red) THEN StripFrom(s, p + Len(Red))
    ELSE IF StartsWith(s, p, Reset) THEN StripFrom(s, p + Len(Reset))
    ELSE <<s[p]>> \o StripFrom(s, p + 1)

RECURSIVE SpansFrom(_, _, _, _)
(* the texts between an opening sequence and the next closing sequence *)
SpansFrom(s, p, inside, cur) ==
    IF p > Len(s) THEN <<>>
    ELSE IF ~inside
    THEN IF StartsWith(s, p, Red) THEN SpansFrom(s, p + Len(Red), TRUE, <<>>)
         ELSE SpansFrom(s, p + 1, FALSE, <<>>)
    ELSE IF StartsWith(s, p, Reset)
         THEN <<cur>> \o SpansFrom(s, p + Len(Reset), FALSE, <<>>)
         ELSE SpansFrom(s, p + 1, TRUE, Append(cur, s[p]))

(* ascending, pairwise disjoint and inside base_range *)
Ordered(ranges, base_range) ==
    /\ \A r \in 1..Len(ranges) :
           /\ base_range.start <= ranges[r].start
           /\ ranges[r].start <= ranges[r].end
           /\ ranges[r].end <= base_range.end
    /\ \A r \in 1..(Len(ranges) - 1) : ranges[r].end <= ranges[r + 1].start

(* the text a range captures, out of the function text *)
Captured(function_src, base_range, range) ==
    Slice(function_src, range.start - base_range.start, range.end - base_range.start)

C22_HighlightOnlyWraps ==
    (hl.pc = "returned" /\ Ordered(hl.highlight_ranges, hl.base_range)) =>
        /\ StripFrom(hl.function_src, 1) = hl.original
        /\ SpansFrom(hl.function_src, 1, FALSE, <<>>) =
               [r \in 1..Len(hl.highlight_ranges) |->
                   Captured(hl.original, hl.base_range, hl.highlight_ranges[r])]

(* two ranges that capture text, of a function that does not start its file *)
C22_Witness ==
    /\ hl.pc = "returned"
    /\ Ordered(hl.highlight_ranges, hl.base_range)
    /\ hl.base_range.start > 0
    /\ Len(hl.highlight_ranges) >= 2
    /\ \A r \in 1..Len(hl.highlight_ranges) :
           hl.highlight_ranges[r].start < hl.highlight_ranges[r].end
    /\ hl.function_src # hl.original

====
